---- MODULE Spec2Model ----
(***************************************************************************)
(* Model of the monitoring_aug25 scripts: the metric derivation of         *)
(* dq_visualizer.py (calculate_tableau_metrics) and of                     *)
(* validation_chart_generator.py (calculate_metrics), and the per-column   *)
(* chart classification of dq_visualizer.py (generate_charts).             *)
(*                                                                         *)
(* A DataFrame is a sequence of columns [name, dtype, values]; DataFrames  *)
(* live in a heap and the program's variables hold references, so that     *)
(* df.copy() and an alias are different things.                            *)
(***************************************************************************)
EXTENDS Integers, Sequences, FiniteSets, TLC

VARIABLES
    heap,               \* reference -> DataFrame (<<>> while not allocated)
    df,                 \* the caller's DataFrame (a reference)
    df0,                \* ghost: the content of df when the call was made
    df_with_metrics,    \* local of calculate_*_metrics (0 while unbound)
    ret,                \* the returned reference (0 before the return)
    script,             \* "dq_visualizer" or "validation_chart_generator"
    pc,                 \* position in the function being run
    step,               \* index of the next statement of the try body
    exc,                \* the exception caught by `except Exception`
    column_i,           \* generate_charts: index of the next column
    histogram_count,
    bar_chart_count,
    range_chart_count,
    skipped_count,
    files,              \* the artifacts present in output_dir
    log,                \* ghost: one record per column visited
    connection,         \* main: "none", "open" or "closed"
    close_calls,        \* ghost: how often connection.close() was called
    process,            \* "running", "exit_1", "traceback" or "completed"
    pending,            \* the exception travelling through main's finally
    first_result,       \* the table the first of two derivations returned
    range_input,        \* create_range_groups: the series it is given
    range_groups        \* create_range_groups: what it returned

vars == <<heap, df, df0, df_with_metrics, ret, script, pc, step, exc,
          column_i, histogram_count, bar_chart_count, range_chart_count,
          skipped_count, files, log, connection, close_calls, process,
          pending, first_result, range_input, range_groups>>

deriveVars == <<heap, df, df0, df_with_metrics, ret, script, pc, step, exc>>
chartVars == <<column_i, histogram_count, bar_chart_count, range_chart_count,
               skipped_count, files, log>>
mainVars == <<connection, close_calls, process, pending>>
rangeVars == <<range_input, range_groups>>
otherVars == <<mainVars, first_result, rangeVars>>

(***************************************************************************)
(* Cell values. Every value is a triple <<tag, p, q>>:                     *)
(*   "null"  None / NaN            "n"  the number p/q (q > 0, reduced)    *)
(*   "d"     decimal.Decimal p/q   "s"  the p-th string                    *)
(*   "b"     bool (p in 0..1)      "inf" +-infinity (p is the sign)        *)
(***************************************************************************)
NULL == <<"null", 0, 1>>
Num(p) == <<"n", p, 1>>
Dec(p) == <<"d", p, 1>>
Str(k) == <<"s", k, 1>>
Bool(b) == <<"b", b, 1>>
Inf(sign) == <<"inf", sign, 1>>

isna(v) == v[1] = "null"

Abs(x) == IF x < 0 THEN -x ELSE x

RECURSIVE Gcd(_, _)
Gcd(a, b) == IF b = 0 THEN a ELSE Gcd(b, a % b)

\* the float p/q, q # 0, as a reduced fraction with a positive denominator
Rat(p, q) ==
    LET g == Gcd(Abs(p), Abs(q))
        s == IF q < 0 THEN -1 ELSE 1
    IN  <<"n", (s * p) \div g, (s * q) \div g>>

\* float division of two cells, as numpy does it: x/0 is +-inf, 0/0 is NaN
truediv(a, b) ==
    IF isna(a) \/ isna(b) THEN NULL
    ELSE IF b[2] = 0
         THEN IF a[2] = 0 THEN NULL
              ELSE Inf(IF a[2] < 0 THEN -1 ELSE 1)
         ELSE Rat(a[2] * b[3], a[3] * b[2])

(***************************************************************************)
(* Series and DataFrames                                                   *)
(***************************************************************************)
Series(dtype, values) == [dtype |-> dtype, values |-> values]
Column(name, s) == [name |-> name, dtype |-> s.dtype, values |-> s.values]

columns(t) == [i \in 1..Len(t) |-> t[i].name]
HasColumn(t, name) == \E i \in 1..Len(t) : t[i].name = name
ColumnIndex(t, name) == CHOOSE i \in 1..Len(t) : t[i].name = name
\* df[name] for a column that exists
getitem(t, name) ==
    LET c == t[ColumnIndex(t, name)] IN Series(c.dtype, c.values)
\* df[name] = s: replaces the column in place, or appends it
setitem(t, name, s) ==
    IF HasColumn(t, name)
    THEN [t EXCEPT ![ColumnIndex(t, name)] = Column(name, s)]
    ELSE Append(t, Column(name, s))

dropna(values) == SelectSeq(values, LAMBDA v : ~isna(v))
\* series.nunique(): the distinct non-missing values
nunique(s) == Cardinality({s.values[i] : i \in 1..Len(s.values)} \ {NULL})
\* series.isna().all(): true of an empty series too
isna_all(s) == \A i \in 1..Len(s.values) : isna(s.values[i])

(***************************************************************************)
(* convert_decimals_to_float                                               *)
(***************************************************************************)
\* pd.to_numeric(..., errors='coerce') on one cell
to_numeric_coerce(v) ==
    IF v[1] \in {"n", "d", "b"} THEN <<"n", v[2], v[3]>> ELSE NULL

\* df[col].dropna().iloc[0] if not df[col].dropna().empty else None
sample_val(values) ==
    IF dropna(values) = <<>> THEN NULL ELSE Head(dropna(values))

convert_column(c) ==
    IF c.dtype = "object" /\ sample_val(c.values)[1] = "d"
    THEN [c EXCEPT !.dtype = "float64",
                   !.values = [i \in 1..Len(c.values) |->
                                   to_numeric_coerce(c.values[i])]]
    ELSE c

\* the loop over df.columns; the frame is changed in place and returned
convert_decimals_to_float(t) == [i \in 1..Len(t) |-> convert_column(t[i])]

(***************************************************************************)
(* safe_divide (the same nested helper in both scripts)                    *)
(***************************************************************************)
\* the denominator left as it is
replace_nothing(values) == values

\* denominator.replace(0, float('nan'))
replace_zero_nan(values) ==
    [i \in 1..Len(values) |->
        IF values[i][1] \in {"n", "d"} /\ values[i][2] = 0
        THEN NULL ELSE values[i]]

\* numerator / denom_safe raises TypeError when a row holds two present
\* operands that are not both numbers (object columns; rows with a
\* missing operand are masked out before the operator is applied)
truediv_raises(x, y) ==
    \E i \in 1..Len(x) :
        /\ ~isna(x[i]) /\ ~isna(y[i])
        /\ ~(x[i][1] = "n" /\ y[i][1] = "n")

series_truediv(x, y) == [i \in 1..Len(x) |-> truediv(x[i], y[i])]

safe_divide_raises(numerator, denominator) ==
    truediv_raises(numerator.values, replace_zero_nan(denominator.values))

safe_divide(numerator, denominator) ==
    LET denom_safe == replace_zero_nan(denominator.values)
    IN  Series("float64", series_truediv(numerator.values, denom_safe))

(***************************************************************************)
(* The try bodies of calculate_tableau_metrics and calculate_metrics, one  *)
(* record per statement, in source order.                                  *)
(***************************************************************************)
N(s) == <<s>>

Ratio(out, num, den) ==
    [kind |-> "ratio", out |-> N(out), num |-> N(num), alt |-> N(num),
     den |-> N(den)]
Util(out, num, alt, den) ==
    [kind |-> "util", out |-> N(out), num |-> N(num), alt |-> N(alt),
     den |-> N(den)]
Passthrough(out, num) ==
    [kind |-> "copy", out |-> N(out), num |-> N(num), alt |-> N(num),
     den |-> N(num)]

TableauStatements == <<
    Ratio("TABLEAU_PBAD_PER_OPEN", "CHARGED_OFF_STATEMENTS", "OPEN_STATEMENTS"),
    Ratio("TABLEAU_SEVERITY", "PRINCIPAL_BALANCE_CHARGEDOFF_ACCOUNTS",
          "CREDIT_LIMIT_CHARGEDOFF_ACCOUNTS"),
    Util("TABLEAU_UTIL", "PRINCIPAL_BALANCE_OPEN_ACCOUNTS",
         "TOTAL_BALANCE_OPEN_ACCOUNTS", "CREDIT_LIMIT_OPEN_ACCOUNTS"),
    Ratio("TABLEAU_DQ30", "BKT2_ACCOUNTS", "OPEN_STATEMENTS"),
    Ratio("TABLEAU_CREDIT_LINE", "CREDIT_LIMIT_OPEN_ACCOUNTS", "OPEN_STATEMENTS"),
    Ratio("TABLEAU_CASH_ADVANCE", "CASH_ADVANCE_TAKERS", "OPEN_STATEMENTS"),
    Ratio("TABLEAU_PENALTY", "LATE_FEES", "OPEN_STATEMENTS"),
    Ratio("TABLEAU_PVOL", "PURCHASE_BALANCE_OPEN_ACCOUNTS",
          "TOTAL_BALANCE_OPEN_ACCOUNTS"),
    Ratio("TABLEAU_ATTRITION", "VOLUNTARY_CLOSURES", "OPEN_STATEMENTS"),
    Passthrough("TABLEAU_OUTSTANDING",
                "AVERAGE_OUTSTANDING_BALANCE_OPEN_ACCOUNTS") >>

\* calculate_metrics with PVOL divided by OPEN_STATEMENTS
ActualStatementsDrifted == <<
    Ratio("ACTUAL_PBAD_PER_OPEN", "CHARGED_OFF_STATEMENTS", "OPEN_STATEMENTS"),
    Ratio("ACTUAL_SEVERITY", "PRINCIPAL_BALANCE_CHARGEDOFF_ACCOUNTS",
          "CREDIT_LIMIT_CHARGEDOFF_ACCOUNTS"),
    Util("ACTUAL_UTIL", "PRINCIPAL_BALANCE_OPEN_ACCOUNTS",
         "TOTAL_BALANCE_OPEN_ACCOUNTS", "CREDIT_LIMIT_OPEN_ACCOUNTS"),
    Ratio("ACTUAL_DQ30", "BKT2_ACCOUNTS", "OPEN_STATEMENTS"),
    Ratio("ACTUAL_CREDIT_LINE", "CREDIT_LIMIT_OPEN_ACCOUNTS", "OPEN_STATEMENTS"),
    Ratio("ACTUAL_CASH_ADVANCE", "CASH_ADVANCE_TAKERS", "OPEN_STATEMENTS"),
    Ratio("ACTUAL_PENALTY", "LATE_FEES", "OPEN_STATEMENTS"),
    Ratio("ACTUAL_PVOL", "PURCHASE_BALANCE_OPEN_ACCOUNTS", "OPEN_STATEMENTS"),
    Ratio("ACTUAL_ATTRITION", "VOLUNTARY_CLOSURES", "OPEN_STATEMENTS"),
    Passthrough("ACTUAL_OUTSTANDING",
                "AVERAGE_OUTSTANDING_BALANCE_OPEN_ACCOUNTS") >>

ActualStatements == <<
    Ratio("ACTUAL_PBAD_PER_OPEN", "CHARGED_OFF_STATEMENTS", "OPEN_STATEMENTS"),
    Ratio("ACTUAL_SEVERITY", "PRINCIPAL_BALANCE_CHARGEDOFF_ACCOUNTS",
          "CREDIT_LIMIT_CHARGEDOFF_ACCOUNTS"),
    Util("ACTUAL_UTIL", "PRINCIPAL_BALANCE_OPEN_ACCOUNTS",
         "TOTAL_BALANCE_OPEN_ACCOUNTS", "CREDIT_LIMIT_OPEN_ACCOUNTS"),
    Ratio("ACTUAL_DQ30", "BKT2_ACCOUNTS", "OPEN_STATEMENTS"),
    Ratio("ACTUAL_CREDIT_LINE", "CREDIT_LIMIT_OPEN_ACCOUNTS", "OPEN_STATEMENTS"),
    Ratio("ACTUAL_CASH_ADVANCE", "CASH_ADVANCE_TAKERS", "OPEN_STATEMENTS"),
    Ratio("ACTUAL_PENALTY", "LATE_FEES", "OPEN_STATEMENTS"),
    Ratio("ACTUAL_PVOL", "PURCHASE_BALANCE_OPEN_ACCOUNTS",
          "TOTAL_BALANCE_OPEN_ACCOUNTS"),
    Ratio("ACTUAL_ATTRITION", "VOLUNTARY_CLOSURES", "OPEN_STATEMENTS"),
    Passthrough("ACTUAL_OUTSTANDING",
                "AVERAGE_OUTSTANDING_BALANCE_OPEN_ACCOUNTS") >>

Statements ==
    IF script = "dq_visualizer" THEN TableauStatements ELSE ActualStatements

(***************************************************************************)
(* calculate_tableau_metrics(df) / calculate_metrics(df)                   *)
(***************************************************************************)
\* no copy: a second name for the caller's frame
df_alias(h, r) == [heap |-> h, ref |-> r]

\* df.copy(): a new frame with the same content
df_copy(h, r) == [heap |-> [h EXCEPT ![2] = h[r]], ref |-> 2]

\* df_with_metrics = df.copy()
Copy ==
    /\ pc = "call"
    /\ heap' = df_copy(heap, df).heap
    /\ df_with_metrics' = df_copy(heap, df).ref
    /\ pc' = "convert"
    /\ UNCHANGED <<df, df0, ret, script, step, exc, chartVars, otherVars>>

\* df_with_metrics = convert_decimals_to_float(df_with_metrics)
ConvertDecimals ==
    /\ pc = "convert"
    /\ heap' = [heap EXCEPT ![df_with_metrics] = convert_decimals_to_float(@)]
    /\ pc' = "try"
    /\ step' = 1
    /\ UNCHANGED <<df, df0, df_with_metrics, ret, script, exc,
                   chartVars, otherVars>>

\* the effect of  df_with_metrics[out] = safe_divide(df_with_metrics[num],
\* df_with_metrics[den]) : KeyError, TypeError, or the column is set
Assign(out, num, den) ==
    LET t == heap[df_with_metrics] IN
    IF ~HasColumn(t, num) \/ ~HasColumn(t, den)
    THEN /\ exc' = "KeyError" /\ pc' = "except"
         /\ UNCHANGED <<heap, step>>
    ELSE IF safe_divide_raises(getitem(t, num), getitem(t, den))
    THEN /\ exc' = "TypeError" /\ pc' = "except"
         /\ UNCHANGED <<heap, step>>
    ELSE /\ heap' = [heap EXCEPT ![df_with_metrics] =
                        setitem(t, out, safe_divide(getitem(t, num),
                                                    getitem(t, den)))]
         /\ step' = step + 1
         /\ UNCHANGED <<exc, pc>>

RatioStatement ==
    /\ pc = "try" /\ step <= Len(Statements)
    /\ Statements[step].kind = "ratio"
    /\ Assign(Statements[step].out, Statements[step].num, Statements[step].den)
    /\ UNCHANGED <<df, df0, df_with_metrics, ret, script, chartVars, otherVars>>

\* the UTIL numerator chosen by how many values the column holds
util_numerator_by_values(t, st) ==
    IF HasColumn(t, st.num) /\ ~isna_all(getitem(t, st.num)) THEN st.num
    ELSE IF HasColumn(t, st.alt) THEN st.alt
    ELSE <<>>

\* if 'PRINCIPAL_BALANCE_OPEN_ACCOUNTS' in df_with_metrics.columns: ...
\* elif 'TOTAL_BALANCE_OPEN_ACCOUNTS' in df_with_metrics.columns: ...
\* the numerator the statement divides, <<>> when it divides nothing
util_numerator(t, st) ==
    IF HasColumn(t, st.num) THEN st.num
    ELSE IF HasColumn(t, st.alt) THEN st.alt
    ELSE <<>>

UtilStatement ==
    /\ pc = "try" /\ step <= Len(Statements)
    /\ Statements[step].kind = "util"
    /\ LET st == Statements[step]
           numerator == util_numerator(heap[df_with_metrics], st)
       IN  IF numerator # <<>> THEN Assign(st.out, numerator, st.den)
           ELSE /\ step' = step + 1
                /\ UNCHANGED <<heap, exc, pc>>
    /\ UNCHANGED <<df, df0, df_with_metrics, ret, script, chartVars, otherVars>>

\* df_with_metrics[out] = df_with_metrics[num]
PassthroughStatement ==
    /\ pc = "try" /\ step <= Len(Statements)
    /\ Statements[step].kind = "copy"
    /\ LET st == Statements[step]
           t == heap[df_with_metrics]
       IN  IF ~HasColumn(t, st.num)
           THEN /\ exc' = "KeyError" /\ pc' = "except"
                /\ UNCHANGED <<heap, step>>
           ELSE /\ heap' = [heap EXCEPT ![df_with_metrics] =
                               setitem(t, st.out, getitem(t, st.num))]
                /\ step' = step + 1
                /\ UNCHANGED <<exc, pc>>
    /\ UNCHANGED <<df, df0, df_with_metrics, ret, script, chartVars, otherVars>>

\* the handler returning the partly filled copy
except_result_partial == df_with_metrics

\* the reference the except handler returns
except_result == df

\* return df_with_metrics, at the end of the try body
ReturnMetrics ==
    /\ pc = "try" /\ step = Len(Statements) + 1
    /\ ret' = df_with_metrics
    /\ pc' = "returned"
    /\ UNCHANGED <<heap, df, df0, df_with_metrics, script, step, exc,
                   chartVars, otherVars>>

\* except Exception as e: ...; return df
ExceptReturn ==
    /\ pc = "except"
    /\ ret' = except_result
    /\ pc' = "returned"
    /\ UNCHANGED <<heap, df, df0, df_with_metrics, script, step, exc,
                   chartVars, otherVars>>

(***************************************************************************)
(* The derivation on its own: the call is made on a fetched table.         *)
(***************************************************************************)
\* the raw columns the metrics read, in the order of the query result
RawColumns == <<
    N("CHARGED_OFF_STATEMENTS"), N("OPEN_STATEMENTS"),
    N("PRINCIPAL_BALANCE_CHARGEDOFF_ACCOUNTS"),
    N("CREDIT_LIMIT_CHARGEDOFF_ACCOUNTS"),
    N("PRINCIPAL_BALANCE_OPEN_ACCOUNTS"), N("TOTAL_BALANCE_OPEN_ACCOUNTS"),
    N("CREDIT_LIMIT_OPEN_ACCOUNTS"), N("BKT2_ACCOUNTS"),
    N("CASH_ADVANCE_TAKERS"), N("LATE_FEES"),
    N("PURCHASE_BALANCE_OPEN_ACCOUNTS"), N("VOLUNTARY_CLOSURES"),
    N("AVERAGE_OUTSTANDING_BALANCE_OPEN_ACCOUNTS") >>

\* at most this many raw columns are missing from the fetched table
MaxAbsent == 2

\* the contents a fetched column may have (three rows)
SeriesPool == {
    Series("int64", <<Num(10), Num(0), Num(5)>>),
    Series("int64", <<Num(2), Num(0), Num(0)>>),
    Series("float64", <<NULL, Num(3), Num(-1)>>),
    Series("object", <<NULL, NULL, NULL>>),
    Series("object", <<Str(1), NULL, Str(2)>>),
    Series("object", <<Dec(4), Str(1), Dec(0)>>) }

\* the fetched table: the raw columns but those of `absent`, column i
\* holding picks[(i % 3) + 1]
FetchedTable(absent, picks) ==
    LET all == [i \in 1..Len(RawColumns) |->
                   Column(RawColumns[i], picks[(i % 3) + 1])]
    IN  SelectSeq(all, LAMBDA c : c.name \notin absent)

RawNames == {RawColumns[i] : i \in 1..Len(RawColumns)}

\* the variables of main and of create_range_groups while a function is
\* studied on its own: the connection is open, nothing is pending
OtherIdle ==
    /\ connection = "open" /\ close_calls = 0
    /\ process = "running" /\ pending = "none"
    /\ first_result = <<>>
    /\ range_input = <<>> /\ range_groups = <<>>

ChartIdle ==
    /\ column_i = 0
    /\ histogram_count = 0 /\ bar_chart_count = 0
    /\ range_chart_count = 0 /\ skipped_count = 0
    /\ files = {} /\ log = <<>>

DeriveInit ==
    /\ \E absent \in SUBSET RawNames, picks \in [1..3 -> SeriesPool] :
          /\ Cardinality(absent) <= MaxAbsent
          /\ heap = <<FetchedTable(absent, picks), <<>> >>
          /\ df0 = FetchedTable(absent, picks)
    /\ df = 1
    /\ df_with_metrics = 0
    /\ ret = 0
    /\ script \in {"dq_visualizer", "validation_chart_generator"}
    /\ pc = "call"
    /\ step = 0
    /\ exc = "none"
    /\ ChartIdle
    /\ OtherIdle

\* main: df_with_metrics = calculate_tableau_metrics(df)  (or
\* calculate_metrics(df)); control is at the statement after the call
MainAfterDerive ==
    /\ pc = "returned"
    /\ pc' = "main_after_derive"
    /\ UNCHANGED <<heap, df, df0, df_with_metrics, ret, script, step, exc,
                   chartVars, otherVars>>

DeriveNext ==
    \/ Copy
    \/ ConvertDecimals
    \/ RatioStatement
    \/ UtilStatement
    \/ PassthroughStatement
    \/ ReturnMetrics
    \/ ExceptReturn
    \/ MainAfterDerive

SpecDerive == DeriveInit /\ [][DeriveNext]_vars

(***************************************************************************)
(* generate_charts(df, output_dir)                                         *)
(***************************************************************************)
\* is_categorical_column(series, max_unique=50)
max_unique == 50
\* the literal of `series.nunique() > 50`
high_cardinality == 50

NumericDtypes == {"int64", "float64", "bool"}

\* pd.api.types.is_numeric_dtype(series)
is_numeric_column(series) == series.dtype \in NumericDtypes

is_categorical_column_ge1(series) ==
    nunique(series) <= max_unique /\ nunique(series) >= 1
is_categorical_column(series) ==
    nunique(series) <= max_unique /\ nunique(series) > 1

\* series.nunique() > 50
is_high_cardinality_ge(series) == nunique(series) >= high_cardinality
is_high_cardinality(series) == nunique(series) > high_cardinality

\* series.astype(int) of a bool series
astype_int(series) ==
    Series("int64", [i \in 1..Len(series.values) |->
                        Num(series.values[i][2])])

\* the loop body with the all-null test made after the numeric test
ChartStrategyNullTestLate(column) ==
    LET series == IF column.dtype = "bool" THEN astype_int(column)
                  ELSE column
    IN  IF is_numeric_column(series)
        THEN IF is_high_cardinality(series)
             THEN "ranged_bar" ELSE "histogram"
        ELSE IF isna_all(column) THEN "skip"
        ELSE IF is_categorical_column(series)
             THEN "categorical_bar" ELSE "skip"

\* the branch the loop body takes for one column
ChartStrategy(column) ==
    IF isna_all(column) THEN "skip"
    ELSE LET series == IF column.dtype = "bool" THEN astype_int(column)
                       ELSE column
         IN  IF is_numeric_column(series)
             THEN IF is_high_cardinality(series)
                  THEN "ranged_bar" ELSE "histogram"
             ELSE IF is_categorical_column(series)
                  THEN "categorical_bar" ELSE "skip"

\* f"{column_name}_histogram.png" and the like; a name is the sequence of
\* the pieces it is concatenated from
Suffix(strategy) ==
    CASE strategy = "histogram" -> <<"_histogram.png">>
      [] strategy = "ranged_bar" -> <<"_ranges", "_barchart.png">>
      [] strategy = "categorical_bar" -> <<"_barchart.png">>
      [] OTHER -> <<>>
Filename(column_name, strategy) == column_name \o Suffix(strategy)

\* the counters with the ranged-bar branch bumping histogram_count
TallyRangeAsHistogram(strategy) ==
    [histogram |-> histogram_count
                   + (IF strategy \in {"histogram", "ranged_bar"} THEN 1 ELSE 0),
     bar |-> bar_chart_count + (IF strategy = "categorical_bar" THEN 1 ELSE 0),
     range |-> range_chart_count,
     skipped |-> skipped_count + (IF strategy = "skip" THEN 1 ELSE 0)]

\* the four counters after the branch for `strategy` has run
Tally(strategy) ==
    [histogram |-> histogram_count + (IF strategy = "histogram" THEN 1 ELSE 0),
     bar |-> bar_chart_count + (IF strategy = "categorical_bar" THEN 1 ELSE 0),
     range |-> range_chart_count + (IF strategy = "ranged_bar" THEN 1 ELSE 0),
     skipped |-> skipped_count + (IF strategy = "skip" THEN 1 ELSE 0)]

\* at most this many renders of one run fail (plt.savefig raising, ...)
MaxRenderFailures == 2
\* one more render of this run may fail
MayFail ==
    Cardinality({k \in 1..Len(log) :
                    log[k].strategy # "skip" /\ ~log[k].saved})
        < MaxRenderFailures

\* no handler in create_*: the exception leaves generate_charts
render_exception_propagates == "raised"

\* except Exception as e: print(...); plt.close()  -- create_* returns
\* normally and the loop goes on
render_exception_caught == "generate_charts"

\* one iteration of `for column_name in df.columns`. create_histogram,
\* create_range_bar_chart and create_bar_chart catch their own exceptions:
\* `saved` says whether plt.savefig was reached and wrote the file; when
\* it was not, an exception was raised in the body of create_*.
VisitColumn ==
    /\ pc = "generate_charts"
    /\ column_i <= Len(heap[ret])
    /\ LET c == heap[ret][column_i]
           strategy == ChartStrategy(Series(c.dtype, c.values))
       IN  \E saved \in (IF strategy = "skip" THEN {FALSE}
                          ELSE IF MayFail THEN BOOLEAN ELSE {TRUE}) :
             /\ files' = IF saved THEN files \cup {Filename(c.name, strategy)}
                         ELSE files
             /\ log' = Append(log, [column |-> c.name, strategy |-> strategy,
                                    saved |-> saved,
                                    file |-> IF saved
                                             THEN Filename(c.name, strategy)
                                             ELSE <<>>])
             /\ histogram_count' = Tally(strategy).histogram
             /\ bar_chart_count' = Tally(strategy).bar
             /\ range_chart_count' = Tally(strategy).range
             /\ skipped_count' = Tally(strategy).skipped
             /\ pc' = IF strategy # "skip" /\ ~saved
                      THEN render_exception_caught ELSE pc
    /\ column_i' = column_i + 1
    /\ UNCHANGED <<heap, df, df0, df_with_metrics, ret, script, step, exc,
                   otherVars>>

\* the loop is over: the totals are printed and generate_charts returns
PrintTotals ==
    /\ pc = "generate_charts"
    /\ column_i = Len(heap[ret]) + 1
    /\ pc' = "charts_done"
    /\ UNCHANGED <<heap, df, df0, df_with_metrics, ret, script, step, exc,
                   chartVars, otherVars>>

(***************************************************************************)
(* generate_charts on its own, on a table of NumColumns columns.           *)
(***************************************************************************)
NumColumns == 2
ChartRows == 52

\* a column of ChartRows rows: `nulls` missing cells, then the values
\* tag:1 .. tag:k in rotation
Gen(dtype, tag, k, nulls) ==
    Series(dtype, [i \in 1..ChartRows |->
                      IF i <= nulls THEN NULL
                      ELSE <<tag, ((i - nulls - 1) % k) + 1, 1>>])

ChartSeriesPool == {
    Gen("float64", "n", 1, 0), Gen("float64", "n", 50, 1),
    Gen("float64", "n", 51, 1), Gen("float64", "n", 1, ChartRows),
    Gen("int64", "n", 50, 0), Gen("int64", "n", 51, 0),
    Series("bool", [i \in 1..ChartRows |-> Bool(i % 2)]),
    Gen("object", "s", 1, 1), Gen("object", "s", 2, 1),
    Gen("object", "s", 50, 1), Gen("object", "s", 51, 1),
    Gen("object", "s", 1, ChartRows), Gen("object", "d", 2, 0) }

ChartNames == << <<"X">>, <<"X", "_ranges">>, <<"Y">> >>

\* column j is named ChartNames[offset + j - 1] (cyclically)
ChartTable(offset, content) ==
    [j \in 1..NumColumns |->
        Column(ChartNames[((offset + j - 2) % Len(ChartNames)) + 1],
               content[j])]

ChartsInit ==
    /\ \E offset \in 1..Len(ChartNames),
          content \in [1..NumColumns -> ChartSeriesPool] :
          /\ heap = <<ChartTable(offset, content), <<>> >>
          /\ df0 = ChartTable(offset, content)
    /\ df = 1
    /\ df_with_metrics = 1
    /\ ret = 1
    /\ script = "dq_visualizer"
    /\ pc = "generate_charts"
    /\ step = 0
    /\ exc = "none"
    /\ column_i = 1
    /\ histogram_count = 0 /\ bar_chart_count = 0
    /\ range_chart_count = 0 /\ skipped_count = 0
    /\ files = {} /\ log = <<>>
    /\ OtherIdle

ChartsNext ==
    \/ VisitColumn
    \/ PrintTotals

SpecCharts == ChartsInit /\ [][ChartsNext]_vars

(***************************************************************************)
(* Properties of generate_charts (checked under SpecCharts)                *)
(***************************************************************************)
\* what the k-th log record is about: the k-th column of the table
Visited(k) == heap[ret][k]
Present(c) == {c.values[i] : i \in 1..Len(c.values)} \ {NULL}
Distinct(c) == Cardinality(Present(c))
NumericRepr(c) == c.dtype \in {"int64", "float64", "bool"}
CountOf(strategy) ==
    Cardinality({k \in 1..Len(log) : log[k].strategy = strategy})

\* C1: a numeric (or boolean) column with a non-missing value goes to the
\* histogram when it has at most 50 distinct non-missing values and to the
\* ranged-bar chart when it has more than 50; a chart that is saved has the
\* file name of that strategy.
C1_NumericCutoverAt50 ==
    \A k \in 1..Len(log) :
        LET c == Visited(k) IN
        (NumericRepr(c) /\ Present(c) # {}) =>
            /\ Distinct(c) <= 50 =>
                  /\ log[k].strategy = "histogram"
                  /\ log[k].saved => log[k].file = c.name \o <<"_histogram.png">>
            /\ Distinct(c) > 50 =>
                  /\ log[k].strategy = "ranged_bar"
                  /\ log[k].saved =>
                        log[k].file = c.name \o <<"_ranges", "_barchart.png">>

\* a pass that met a numeric column of exactly 50 distinct values (drawn as
\* a histogram) and one of exactly 51 (drawn as a ranged bar)
C1_Witness ==
    /\ pc = "charts_done"
    /\ \E i, j \in 1..Len(log) :
          /\ NumericRepr(Visited(i)) /\ Distinct(Visited(i)) = 50
          /\ log[i].strategy = "histogram" /\ log[i].saved
          /\ NumericRepr(Visited(j)) /\ Distinct(Visited(j)) = 51
          /\ log[j].strategy = "ranged_bar" /\ log[j].saved

\* C2: a non-numeric column with a non-missing value goes to the
\* categorical bar chart when it has 2..50 distinct non-missing values; with
\* exactly 1 or more than 50 it is skipped and nothing is written for it.
C2_CategoricalBetween2And50 ==
    \A k \in 1..Len(log) :
        LET c == Visited(k) IN
        (~NumericRepr(c) /\ Present(c) # {}) =>
            /\ (2 <= Distinct(c) /\ Distinct(c) <= 50) =>
                  /\ log[k].strategy = "categorical_bar"
                  /\ log[k].saved => log[k].file = c.name \o <<"_barchart.png">>
            /\ (Distinct(c) = 1 \/ Distinct(c) > 50) =>
                  /\ log[k].strategy = "skip"
                  /\ ~log[k].saved /\ log[k].file = <<>>

\* a pass that drew a non-numeric column of 50 distinct values as a bar
\* chart and skipped one of 51 (or of 1)
C2_Witness ==
    /\ pc = "charts_done"
    /\ \E i, j \in 1..Len(log) :
          /\ ~NumericRepr(Visited(i)) /\ Distinct(Visited(i)) = 50
          /\ log[i].strategy = "categorical_bar" /\ log[i].saved
          /\ ~NumericRepr(Visited(j)) /\ Distinct(Visited(j)) \in {1, 51}
          /\ log[j].strategy = "skip"

\* C3: a column with no non-missing value is skipped whatever its dtype
\* (a float64 column of NaN is numeric, so this holds only if the all-null
\* test comes first), and nothing is written or counted as a chart for it.
C3_AllMissingIsSkipped ==
    \A k \in 1..Len(log) :
        Present(Visited(k)) = {} =>
            /\ log[k].strategy = "skip"
            /\ ~log[k].saved

\* a pass that skipped an all-NaN float64 column and an all-None object one
C3_Witness ==
    /\ pc = "charts_done"
    /\ \E i, j \in 1..Len(log) :
          /\ Visited(i).dtype = "float64" /\ Present(Visited(i)) = {}
          /\ Visited(j).dtype = "object" /\ Present(Visited(j)) = {}
          /\ log[i].strategy = "skip" /\ log[j].strategy = "skip"

\* C4: every column visited gets exactly one of the four strategies (one
\* log record, one counter bumped, in column order), and two columns of the
\* pass that agree on all-missing, distinct count and numeric-ness get the
\* same strategy, whatever came before them.
Stats(c) == <<Present(c) = {}, Distinct(c), NumericRepr(c)>>
C4_OneStrategyPerColumn ==
    /\ Len(log) = column_i - 1
    /\ \A k \in 1..Len(log) :
          /\ log[k].column = Visited(k).name
          /\ log[k].strategy \in
                {"histogram", "ranged_bar", "categorical_bar", "skip"}
    /\ histogram_count = CountOf("histogram")
    /\ range_chart_count = CountOf("ranged_bar")
    /\ bar_chart_count = CountOf("categorical_bar")
    /\ skipped_count = CountOf("skip")
    /\ histogram_count + range_chart_count + bar_chart_count + skipped_count
          = Len(log)
    /\ \A i, j \in 1..Len(log) :
          Stats(Visited(i)) = Stats(Visited(j)) =>
              log[i].strategy = log[j].strategy
    /\ pc = "charts_done" => Len(log) = Len(heap[ret])

\* a finished pass over two different columns with the same statistics
\* (both ranged bars), the first of which failed to render
C4_Witness ==
    /\ pc = "charts_done"
    /\ Len(log) = Len(heap[ret])
    /\ \E i, j \in 1..Len(log) :
          /\ i < j
          /\ Visited(i).dtype # Visited(j).dtype
          /\ Stats(Visited(i)) = Stats(Visited(j))
          /\ log[i].strategy = "ranged_bar" /\ ~log[i].saved
          /\ log[j].strategy = "ranged_bar"

(***************************************************************************)
(* Properties of the metric derivation (checked under SpecDerive)          *)
(***************************************************************************)
\* the frame the try body works on, once it is bound
Work == heap[df_with_metrics]
InTryOrAfter == pc \in {"try", "except", "returned", "main_after_derive"}
Returned == pc \in {"returned", "main_after_derive"}
\* statement k of the try body has run to its end
Executed(k) == InTryOrAfter /\ k < step
OutNames(prog) == {prog[k].out : k \in 1..Len(prog)}
DerivedNames == OutNames(TableauStatements) \cup OutNames(ActualStatements)
RatioNames(prog) == {prog[k].out : k \in {j \in 1..Len(prog) : prog[j].kind # "copy"}}
DerivedRatioNames == RatioNames(TableauStatements) \cup RatioNames(ActualStatements)

\* o is the null-safe quotient of the cells n and d
QuotientCell(n, d, o) ==
    IF isna(n) \/ isna(d) \/ d[2] = 0
    THEN o = NULL
    ELSE /\ o[1] = "n" /\ o[3] > 0
         /\ o[2] * n[3] * d[2] = o[3] * n[2] * d[3]
\* the series o is the null-safe quotient of the series n and d, row by row
QuotientSeries(n, d, o) ==
    /\ Len(o) = Len(n)
    /\ \A i \in 1..Len(n) : QuotientCell(n[i], d[i], o[i])

\* C5: every ratio column that has been derived holds, row by row, a
\* missing value where the denominator is zero or an operand is missing and
\* numerator/denominator elsewhere; no cell of a derived ratio column
\* (UTIL included) is infinite.
C5_SafeDivideRows ==
    /\ \A k \in 1..Len(Statements) :
          (Executed(k) /\ Statements[k].kind = "ratio") =>
              /\ HasColumn(Work, Statements[k].out)
              /\ QuotientSeries(getitem(Work, Statements[k].num).values,
                                getitem(Work, Statements[k].den).values,
                                getitem(Work, Statements[k].out).values)
    /\ InTryOrAfter =>
          \A j \in 1..Len(Work) :
              Work[j].name \in DerivedRatioNames =>
                  \A i \in 1..Len(Work[j].values) :
                      Work[j].values[i][1] \in {"n", "null"}

\* safe_divide([10, 0, 5], [2, 0, 0]) has given [5.0, missing, missing]
C5_Witness ==
    \E k \in 1..Len(Statements) :
        /\ Executed(k) /\ Statements[k].kind = "ratio"
        /\ getitem(Work, Statements[k].num).values = <<Num(10), Num(0), Num(5)>>
        /\ getitem(Work, Statements[k].den).values = <<Num(2), Num(0), Num(0)>>
        /\ getitem(Work, Statements[k].out).values = <<Num(5), NULL, NULL>>

\* no cell of the fetched table is a string (no division can raise TypeError)
NoStrings(t) ==
    \A j \in 1..Len(t) : \A i \in 1..Len(t[j].values) : t[j].values[i][1] # "s"
\* the raw columns statement st reads are in the fetched table
InputsPresent(st) ==
    CASE st.kind = "ratio" -> HasColumn(df0, st.num) /\ HasColumn(df0, st.den)
      [] st.kind = "util" ->
            (HasColumn(df0, st.num) \/ HasColumn(df0, st.alt))
            /\ HasColumn(df0, st.den)
      [] OTHER -> HasColumn(df0, st.num)

\* C6 (as claimed): when raw columns are missing, the returned table still
\* holds every derived metric whose own raw columns are present.
C6_MissingColumnSkipsOnlyItsMetric ==
    (Returned /\ NoStrings(df0)) =>
        \A k \in 1..Len(Statements) :
            InputsPresent(Statements[k]) =>
                HasColumn(heap[ret], Statements[k].out)

UtilIndex(prog) == CHOOSE k \in 1..Len(prog) : prog[k].kind = "util"
UTIL == Statements[UtilIndex(Statements)]

\* C7: once the UTIL statement has run, with
\* PRINCIPAL_BALANCE_OPEN_ACCOUNTS in the table UTIL is principal / limit
\* row by row (all missing when the principal column is all null); without
\* it but with TOTAL_BALANCE_OPEN_ACCOUNTS it is total / limit; and a pass
\* that succeeds returns that column.
C7_UtilFallback ==
    /\ Executed(UtilIndex(Statements)) =>
          /\ HasColumn(Work, UTIL.num) =>
                /\ HasColumn(Work, UTIL.out)
                /\ QuotientSeries(getitem(Work, UTIL.num).values,
                                  getitem(Work, UTIL.den).values,
                                  getitem(Work, UTIL.out).values)
          /\ (~HasColumn(Work, UTIL.num) /\ HasColumn(Work, UTIL.alt)) =>
                /\ HasColumn(Work, UTIL.out)
                /\ QuotientSeries(getitem(Work, UTIL.alt).values,
                                  getitem(Work, UTIL.den).values,
                                  getitem(Work, UTIL.out).values)
    /\ (Returned /\ exc = "none") =>
          /\ ret = df_with_metrics
          /\ (HasColumn(df0, UTIL.num) \/ HasColumn(df0, UTIL.alt))
                => HasColumn(heap[ret], UTIL.out)

\* a successful pass on a table without the principal column, whose UTIL
\* is total / limit and holds a value
C7_Witness ==
    /\ Returned /\ exc = "none"
    /\ ~HasColumn(df0, UTIL.num) /\ HasColumn(df0, UTIL.alt)
    /\ HasColumn(heap[ret], UTIL.out)
    /\ QuotientSeries(getitem(heap[ret], UTIL.alt).values,
                      getitem(heap[ret], UTIL.den).values,
                      getitem(heap[ret], UTIL.out).values)
    /\ ~isna_all(getitem(heap[ret], UTIL.out))

\* a successful pass on a table whose principal column is all null while
\* total / limit holds values: UTIL is all missing
C7_AllNullPrincipalReached ==
    /\ Returned /\ exc = "none"
    /\ HasColumn(df0, UTIL.num) /\ isna_all(getitem(df0, UTIL.num))
    /\ HasColumn(df0, UTIL.alt) /\ ~isna_all(getitem(Work, UTIL.alt))
    /\ ~isna_all(getitem(Work, UTIL.den))
    /\ isna_all(getitem(heap[ret], UTIL.out))

\* C8 (as claimed): when only the two UTIL numerators are missing from the
\* table, UTIL is left out and the pass does not take its error path.
C8_NoNumeratorIsNoError ==
    ( /\ Returned /\ NoStrings(df0)
      /\ RawNames \ {df0[j].name : j \in 1..Len(df0)} = {UTIL.num, UTIL.alt} )
    => /\ exc = "none"
       /\ ret = df_with_metrics
       /\ ~HasColumn(heap[ret], UTIL.out)

\* C9: the caller's frame keeps the columns, the order and the values it
\* had when the call was made, at every point of the call and after it.
C9_InputNotMutated ==
    /\ heap[df] = df0
    /\ columns(heap[df]) = columns(df0)

\* a successful call whose copy had a Decimal column converted and derived
\* columns appended, the caller's frame still holding the Decimal column
C9_Witness ==
    /\ pc = "main_after_derive" /\ exc = "none"
    /\ ret # df
    /\ Len(heap[ret]) > Len(heap[df])
    /\ \E j \in 1..Len(df0) :
          /\ df0[j].dtype = "object" /\ heap[ret][j].dtype = "float64"
          /\ heap[df][j].dtype = "object"

\* C10: once an exception was raised in the try body the call returns the
\* caller's own frame: unchanged, with no derived column and no converted
\* column, and main goes on to the statement after the call.
C10_ExceptionMakesNoOp ==
    (exc # "none") =>
        /\ pc \in {"except", "returned", "main_after_derive"}
        /\ Returned =>
              /\ ret = df
              /\ heap[ret] = df0
              /\ \A j \in 1..Len(heap[ret]) :
                    heap[ret][j].name \notin DerivedNames

\* main is past a call that failed after it had derived columns and
\* converted a Decimal column in its copy
C10_Witness ==
    /\ pc = "main_after_derive" /\ exc = "TypeError"
    /\ step > 2
    /\ ret = df /\ heap[ret] = df0
    /\ \E j \in 1..Len(Work) : Work[j].name \in DerivedNames
    /\ \E j \in 1..Len(df0) :
          df0[j].dtype = "object" /\ Work[j].dtype = "float64"

(***************************************************************************)
(* Render failures in generate_charts (checked under SpecCharts)           *)
(***************************************************************************)
\* the render of column k raised inside create_*
RenderFailed(k) == log[k].strategy # "skip" /\ ~log[k].saved

\* the strategy the decision table gives a column, from its statistics
ExpectedStrategy(c) ==
    IF Present(c) = {} THEN "skip"
    ELSE IF NumericRepr(c)
         THEN IF Distinct(c) > 50 THEN "ranged_bar" ELSE "histogram"
         ELSE IF 2 <= Distinct(c) /\ Distinct(c) <= 50
              THEN "categorical_bar" ELSE "skip"

\* C11: a failed render is caught inside create_*: generate_charts is never
\* left by an exception, the loop can always take its next step until every
\* column is visited, and each column that comes after a failed render
\* gets the strategy and the filename its own statistics give it.
C11_RenderFailureIsIsolated ==
    /\ pc \in {"generate_charts", "charts_done"}
    /\ pc = "generate_charts" => column_i <= Len(heap[ret]) + 1
    /\ pc = "charts_done" => column_i = Len(heap[ret]) + 1
    /\ Len(log) = column_i - 1
    /\ \A k \in 1..Len(log) :
          (\E j \in 1..(k - 1) : RenderFailed(j)) =>
              /\ log[k].column = Visited(k).name
              /\ log[k].strategy = ExpectedStrategy(Visited(k))
              /\ log[k].saved =>
                    /\ log[k].file = Filename(Visited(k).name, log[k].strategy)
                    /\ log[k].file \in files

\* a finished pass whose first column failed to render as a histogram and
\* whose second column was then drawn as a categorical bar chart
C11_Witness ==
    /\ pc = "charts_done"
    /\ Len(log) = Len(heap[ret])
    /\ \E i, j \in 1..Len(log) :
          /\ i < j
          /\ log[i].strategy = "histogram" /\ RenderFailed(i)
          /\ log[j].strategy = "categorical_bar" /\ log[j].saved
          /\ log[j].file \in files

(***************************************************************************)
(* Filenames and totals of generate_charts (checked under SpecCharts)      *)
(***************************************************************************)
\* the column names of the table are pairwise different
UniqueColumnNames ==
    \A i, j \in 1..Len(heap[ret]) :
        i # j => heap[ret][i].name # heap[ret][j].name

\* C18: in one pass over a table with unique column names, two different
\* columns never write the same file: the renders that saved a file have
\* pairwise different filenames.
C18_FilenamesInjective ==
    UniqueColumnNames =>
        \A i, j \in 1..Len(log) :
            (i # j /\ log[i].saved /\ log[j].saved) =>
                log[i].file # log[j].file

\* C19: when generate_charts has printed its totals, the three chart
\* counters add up to the number of chart files written, and with the
\* skipped counter to the number of columns.
C19_TotalsMatchFiles ==
    pc = "charts_done" =>
        /\ histogram_count + bar_chart_count + range_chart_count
              = Cardinality(files)
        /\ histogram_count + bar_chart_count + range_chart_count
              + skipped_count = Len(heap[ret])

(***************************************************************************)
(* create_range_groups(series, num_groups=8) and create_range_bar_chart    *)
(***************************************************************************)
num_groups == 8

\* float arithmetic on number cells (exact: the inputs below are dyadic)
fadd(a, b) == Rat(a[2] * b[3] + b[2] * a[3], a[3] * b[3])
fsub(a, b) == Rat(a[2] * b[3] - b[2] * a[3], a[3] * b[3])
fmul(k, a) == Rat(k * a[2], a[3])
flt(a, b) == a[2] * b[3] < b[2] * a[3]

\* clean_data.min() and clean_data.max(), of a non-empty sequence
series_min(values) ==
    CHOOSE v \in {values[i] : i \in 1..Len(values)} :
        \A i \in 1..Len(values) : ~flt(values[i], v)
series_max(values) ==
    CHOOSE v \in {values[i] : i \in 1..Len(values)} :
        \A i \in 1..Len(values) : ~flt(v, values[i])

\* f"{x:.0f}": x rounded to an integer, ties to even; the text is the sign
\* and the digits, so that -0.3 gives "-0"
format_0f(x) ==
    LET floor == x[2] \div x[3]
        rest == x[2] - floor * x[3]
        rounded == IF 2 * rest < x[3] THEN floor
                   ELSE IF 2 * rest > x[3] THEN floor + 1
                   ELSE IF floor % 2 = 0 THEN floor ELSE floor + 1
    IN  <<x[2] < 0, Abs(rounded)>>

\* range_size = (max_val - min_val) / num_groups
range_size(min_val, max_val) ==
    LET d == fsub(max_val, min_val) IN Rat(d[2], d[3] * num_groups)

\* range_labels: f"{start:.0f}-{end:.0f}" for each group
range_labels(min_val, max_val) ==
    [i \in 1..num_groups |->
        <<format_0f(fadd(min_val, fmul(i - 1, range_size(min_val, max_val)))),
          format_0f(fadd(min_val, fmul(i, range_size(min_val, max_val))))>>]

\* bins = [min_val + i * range_size ...]; bins[-1] = max_val + 0.001
range_bins(min_val, max_val) ==
    [i \in 1..(num_groups + 1) |->
        IF i = num_groups + 1 THEN fadd(max_val, Rat(1, 1000))
        ELSE fadd(min_val, fmul(i - 1, range_size(min_val, max_val)))]

\* pd.cut raises ValueError: the bins do not increase strictly, or two
\* labels are equal
cut_raises(bins, labels) ==
    \/ \E i \in 1..(Len(bins) - 1) : ~flt(bins[i], bins[i + 1])
    \/ \E i, j \in 1..Len(labels) : i # j /\ labels[i] = labels[j]

\* pd.cut(series, bins, labels, include_lowest=True) on one cell: the
\* index of its interval (bins[i], bins[i+1]], the first one closed on the
\* left; 0 (NaN) for a missing cell or one outside the bins
cut_cell(v, bins) ==
    IF isna(v) THEN 0
    ELSE LET hit == {i \in 1..(Len(bins) - 1) :
                        \/ flt(bins[i], v) /\ ~flt(bins[i + 1], v)
                        \/ i = 1 /\ v = bins[1]}
         IN  IF hit = {} THEN 0 ELSE CHOOSE i \in hit : TRUE

\* pd.Series(dtype='category')
empty_groups == [codes |-> <<>>, labels |-> <<>>]

\* create_range_groups: the category code of every row (0 is NaN) and the
\* labels; the empty series when nothing is left after dropna or when
\* anything in the try block raised
create_range_groups(series) ==
    LET clean_data == dropna(series.values) IN
    IF clean_data = <<>> THEN empty_groups
    ELSE LET min_val == series_min(clean_data)
             max_val == series_max(clean_data)
             labels == range_labels(min_val, max_val)
             bins == range_bins(min_val, max_val)
         IN  IF cut_raises(bins, labels) THEN empty_groups
             ELSE [codes |-> [i \in 1..Len(series.values) |->
                                 cut_cell(series.values[i], bins)],
                   labels |-> labels]

\* range_groups.value_counts().sort_index(): the rows of each category
value_counts(groups) ==
    [j \in 1..Len(groups.labels) |->
        Cardinality({i \in 1..Len(groups.codes) : groups.codes[i] = j})]

\* range_groups = create_range_groups(series, num_groups=8)
CallRangeGroups ==
    /\ pc = "create_range_bar_chart"
    /\ range_groups' = create_range_groups(range_input)
    /\ pc' = "range_groups_returned"
    /\ UNCHANGED <<heap, df, df0, df_with_metrics, ret, script, step, exc,
                   chartVars, mainVars, first_result, range_input>>

\* if len(range_groups.dropna()) == 0: 'No data to plot'  else: the bars
PlotRanges ==
    /\ pc = "range_groups_returned"
    /\ log' = <<[placeholder |->
                    \A i \in 1..Len(range_groups.codes) :
                        range_groups.codes[i] = 0,
                heights |-> value_counts(range_groups)]>>
    /\ pc' = "range_plotted"
    /\ UNCHANGED <<heap, df, df0, df_with_metrics, ret, script, step, exc,
                   column_i, histogram_count, bar_chart_count,
                   range_chart_count, skipped_count, files, otherVars>>

\* plt.savefig(filepath, ...), or the except branch of the function
SaveRangeChart ==
    /\ pc = "range_plotted"
    /\ \E saved \in BOOLEAN :
          files' = IF saved THEN {Filename(<<"X">>, "ranged_bar")} ELSE {}
    /\ pc' = "range_chart_done"
    /\ UNCHANGED <<heap, df, df0, df_with_metrics, ret, script, step, exc,
                   column_i, histogram_count, bar_chart_count,
                   range_chart_count, skipped_count, log, otherVars>>

(***************************************************************************)
(* create_range_bar_chart on its own, on a series of ChartRows rows        *)
(***************************************************************************)
\* `nulls` missing cells, then lo, lo + step, lo + 2 * step, ...
RangeGen(dtype, lo, stride, nulls) ==
    Series(dtype, [i \in 1..ChartRows |->
                      IF i <= nulls THEN NULL
                      ELSE fadd(lo, fmul(i - nulls - 1, stride))])

RangeSeriesPool ==
    {RangeGen("float64", lo, stride, nulls) :
        lo \in {Num(-3), Num(0), Num(1), Rat(1, 2)},
        stride \in {Rat(1, 64), Num(1), Num(7)},
        nulls \in {0, 1}}
    \cup {RangeGen("float64", Num(5), Num(0), 0),
          RangeGen("float64", Num(5), Num(1), ChartRows)}

RangeInit ==
    /\ range_input \in RangeSeriesPool
    /\ range_groups = <<>>
    /\ heap = << <<>>, <<>> >>
    /\ df0 = <<>>
    /\ df = 0 /\ df_with_metrics = 0 /\ ret = 0
    /\ script = "dq_visualizer"
    /\ pc = "create_range_bar_chart"
    /\ step = 0
    /\ exc = "none"
    /\ ChartIdle
    /\ connection = "open" /\ close_calls = 0
    /\ process = "running" /\ pending = "none"
    /\ first_result = <<>>

RangeNext ==
    \/ CallRangeGroups
    \/ PlotRanges
    \/ SaveRangeChart

SpecRange == RangeInit /\ [][RangeNext]_vars

(***************************************************************************)
(* Properties of the ranged bar chart (checked under SpecRange)            *)
(***************************************************************************)
Clean == dropna(range_input.values)
Degenerate == Clean = <<>> \/ series_min(Clean) = series_max(Clean)
RangePlotted == pc \in {"range_plotted", "range_chart_done"}

\* C17: for a series with non-missing values and min < max, the 8 buckets
\* have equal width (the last upper bound nudged above max), every
\* non-missing value falls in exactly one bucket, the minimum in the first
\* and the maximum in the last, and the bar heights add up to the number of
\* non-missing values; the 'No data to plot' placeholder is drawn only in
\* the degenerate cases (no non-missing value, or min = max).
C17_RangeBuckets ==
    RangePlotted =>
        /\ log[1].placeholder <=> Degenerate
        /\ ~Degenerate =>
              LET codes == range_groups.codes
                  heights == log[1].heights
                  rows == 1..Len(range_input.values)
              IN  /\ Len(heights) = num_groups
                  /\ \A i \in rows :
                        ~isna(range_input.values[i]) =>
                            codes[i] \in 1..num_groups
                  /\ \A i \in rows :
                        /\ range_input.values[i] = series_min(Clean) =>
                              codes[i] = 1
                        /\ range_input.values[i] = series_max(Clean) =>
                              codes[i] = num_groups
                  /\ heights[1] + heights[2] + heights[3] + heights[4]
                        + heights[5] + heights[6] + heights[7] + heights[8]
                        = Len(Clean)

\* what holds of every input: whenever bars are drawn, they are
\* 8 buckets that hold every non-missing value exactly once
RangeBarsCountEveryValue ==
    (RangePlotted /\ ~log[1].placeholder) =>
        /\ Len(log[1].heights) = num_groups
        /\ \A i \in 1..Len(range_input.values) :
              ~isna(range_input.values[i]) =>
                  range_groups.codes[i] \in 1..num_groups
        /\ log[1].heights[1] + log[1].heights[2] + log[1].heights[3]
              + log[1].heights[4] + log[1].heights[5] + log[1].heights[6]
              + log[1].heights[7] + log[1].heights[8] = Len(Clean)

(***************************************************************************)
(* The two derivers on one fetched table: calculate_tableau_metrics runs   *)
(* first, then calculate_metrics on the same content.                      *)
(***************************************************************************)
\* at most this many raw columns are missing when both derivers are run
MaxAbsentBoth == 1

EquivInit ==
    /\ \E absent \in SUBSET RawNames, picks \in [1..3 -> SeriesPool] :
          /\ Cardinality(absent) <= MaxAbsentBoth
          /\ heap = <<FetchedTable(absent, picks), <<>> >>
          /\ df0 = FetchedTable(absent, picks)
    /\ df = 1
    /\ df_with_metrics = 0
    /\ ret = 0
    /\ script = "dq_visualizer"
    /\ pc = "call"
    /\ step = 0
    /\ exc = "none"
    /\ ChartIdle
    /\ OtherIdle

\* the result of calculate_tableau_metrics is kept and calculate_metrics is
\* called on a frame with the content that was fetched
SecondCall ==
    /\ pc = "returned" /\ script = "dq_visualizer"
    /\ first_result' = [table |-> heap[ret], exc |-> exc]
    /\ heap' = <<df0, <<>> >>
    /\ df_with_metrics' = 0
    /\ ret' = 0
    /\ script' = "validation_chart_generator"
    /\ pc' = "call"
    /\ step' = 0
    /\ exc' = "none"
    /\ UNCHANGED <<df, df0, chartVars, mainVars, rangeVars>>

EquivNext ==
    \/ Copy
    \/ ConvertDecimals
    \/ RatioStatement
    \/ UtilStatement
    \/ PassthroughStatement
    \/ ReturnMetrics
    \/ ExceptReturn
    \/ SecondCall

SpecEquiv == EquivInit /\ [][EquivNext]_vars

(***************************************************************************)
(* Equivalence of the two derivers (checked under SpecEquiv)               *)
(***************************************************************************)
BothReturned == pc = "returned" /\ script = "validation_chart_generator"

\* C15: on the same input the two derivers take the same path (both
\* succeed, or both fail with the same exception and return the input);
\* on success, for each of the ten statements the TABLEAU_ column is
\* present iff the ACTUAL_ column is, and the two hold the same dtype and
\* the same cells row by row; the other columns are equal as well.
C15_DeriversEquivalent ==
    BothReturned =>
        LET tableau == first_result.table
            actual == heap[ret]
        IN  /\ first_result.exc = exc
            /\ exc # "none" => tableau = df0 /\ actual = df0
            /\ exc = "none" =>
                  /\ Len(tableau) = Len(actual)
                  /\ \A k \in 1..Len(TableauStatements) :
                        LET t == TableauStatements[k].out
                            a == ActualStatements[k].out
                        IN  /\ HasColumn(tableau, t) <=> HasColumn(actual, a)
                            /\ HasColumn(tableau, t) =>
                                  getitem(tableau, t) = getitem(actual, a)
                  /\ \A i \in 1..Len(df0) :
                        /\ HasColumn(tableau, df0[i].name)
                        /\ HasColumn(actual, df0[i].name)
                        /\ getitem(tableau, df0[i].name)
                              = getitem(actual, df0[i].name)

\* both derivers succeeded on a table without the principal-balance
\* column and derived all ten metrics, with a value in the UTIL columns
C15_Witness ==
    /\ BothReturned
    /\ exc = "none" /\ first_result.exc = "none"
    /\ ~HasColumn(df0, N("PRINCIPAL_BALANCE_OPEN_ACCOUNTS"))
    /\ \A k \in 1..Len(ActualStatements) :
          /\ HasColumn(heap[ret], ActualStatements[k].out)
          /\ HasColumn(first_result.table, TableauStatements[k].out)
    /\ ~isna_all(getitem(heap[ret], N("ACTUAL_UTIL")))

\* both derivers failed with KeyError on a table without LATE_FEES
C15_BothFailReached ==
    /\ BothReturned
    /\ exc = "KeyError" /\ first_result.exc = "KeyError"
    /\ ~HasColumn(df0, N("LATE_FEES"))

(***************************************************************************)
(* validation_chart_generator.py: create_validation_chart,                 *)
(* create_dq30_chart and generate_validation_charts                        *)
(***************************************************************************)
Metric(metric_name, actual_col, assumption_col) ==
    [metric_name |-> N(metric_name), actual_col |-> N(actual_col),
     assumption_col |-> N(assumption_col)]

\* the list `metrics` of generate_validation_charts
metrics == <<
    Metric("PBAD_PER_OPEN", "ACTUAL_PBAD_PER_OPEN", "PBAD"),
    Metric("SEVERITY", "ACTUAL_SEVERITY", "SEVERITY"),
    Metric("UTIL", "ACTUAL_UTIL", "UTILIZATION"),
    Metric("CREDIT_LINE", "ACTUAL_CREDIT_LINE", "CREDIT_LINE"),
    Metric("CASH_ADVANCE", "ACTUAL_CASH_ADVANCE", "CASH_ADVANCE_AGGREGATE"),
    Metric("PENALTY", "ACTUAL_PENALTY", "PENALTY_AGGREGATE"),
    Metric("PVOL", "ACTUAL_PVOL", "PVOL_AGGREGATE"),
    Metric("ATTRITION", "ACTUAL_ATTRITION", "ATTRITION_AGGREGATE"),
    Metric("OUTSTANDING", "ACTUAL_OUTSTANDING", "OUTSTANDING_AGGREGATE") >>

\* ax.hist(data, bins=30) and data.mean() raise on a value that is not a
\* finite number
hist_raises(values) ==
    \E i \in 1..Len(values) : values[i][1] \in {"s", "inf"}

\* the right panel with the assumption column read without a test
right_panel_unguarded(t, assumption_col) ==
    IF assumption_col = <<>> \/ ~HasColumn(t, assumption_col) THEN "KeyError"
    ELSE IF dropna(getitem(t, assumption_col).values) = <<>> THEN "no_data"
    ELSE IF hist_raises(getitem(t, assumption_col).values) THEN "TypeError"
    ELSE "histogram"

\* if assumption_col and assumption_col in df.columns: ... else: ...
\* (<<>> stands for None); the panel drawn, or the exception raised
right_panel(t, assumption_col) ==
    IF assumption_col = <<>> \/ ~HasColumn(t, assumption_col)
    THEN "not_available"
    ELSE IF dropna(getitem(t, assumption_col).values) = <<>> THEN "no_data"
    ELSE IF hist_raises(getitem(t, assumption_col).values) THEN "TypeError"
    ELSE "histogram"

\* actual_data = df[actual_col].dropna(); histogram or 'No actual data'
left_panel(t, actual_col) ==
    IF ~HasColumn(t, actual_col) THEN "KeyError"
    ELSE IF dropna(getitem(t, actual_col).values) = <<>> THEN "no_data"
    ELSE IF hist_raises(getitem(t, actual_col).values) THEN "TypeError"
    ELSE "histogram"

Exceptions == {"KeyError", "TypeError"}

\* the body of create_validation_chart up to plt.tight_layout(): the two
\* panels, and the exception that ended it ("none" when savefig is reached)
draw_validation_chart(t, actual_col, assumption_col) ==
    LET left == left_panel(t, actual_col)
        right == right_panel(t, assumption_col)
    IN  IF left \in Exceptions
        THEN [left |-> "none", right |-> "none", raised |-> left]
        ELSE IF right \in Exceptions
        THEN [left |-> left, right |-> "none", raised |-> right]
        ELSE [left |-> left, right |-> right, raised |-> "none"]

\* plt.savefig may fail once more in this run
SaveMayFail ==
    Cardinality({k \in 1..Len(log) : ~log[k].io_ok}) < MaxRenderFailures

\* one iteration of `for metric_name, actual_col, assumption_col in
\* metrics`: create_validation_chart catches what its body raises; `io_ok`
\* says whether plt.savefig wrote the file once it was reached
ValidationChart ==
    /\ pc = "validation_charts"
    /\ column_i <= Len(metrics)
    /\ LET m == metrics[column_i]
           drawn == draw_validation_chart(heap[ret], m.actual_col,
                                          m.assumption_col)
           filename == m.metric_name \o <<"_validation.png">>
       IN  \E io_ok \in (IF drawn.raised = "none" /\ SaveMayFail
                          THEN BOOLEAN ELSE {TRUE}) :
             LET saved == drawn.raised = "none" /\ io_ok IN
             /\ files' = IF saved THEN files \cup {filename} ELSE files
             /\ log' = Append(log, [column |-> m.metric_name,
                                    strategy |-> "validation",
                                    saved |-> saved,
                                    file |-> IF saved THEN filename ELSE <<>>,
                                    left |-> drawn.left,
                                    right |-> drawn.right,
                                    raised |-> drawn.raised,
                                    io_ok |-> io_ok])
    /\ column_i' = column_i + 1
    /\ UNCHANGED <<deriveVars, histogram_count, bar_chart_count,
                   range_chart_count, skipped_count, otherVars>>

\* create_dq30_chart(df, output_dir): df['ACTUAL_DQ30'], one panel
Dq30Chart ==
    /\ pc = "validation_charts"
    /\ column_i = Len(metrics) + 1
    /\ LET left == left_panel(heap[ret], N("ACTUAL_DQ30"))
           filename == <<"DQ30_validation.png">>
       IN  \E io_ok \in (IF left \notin Exceptions /\ SaveMayFail
                          THEN BOOLEAN ELSE {TRUE}) :
             LET saved == left \notin Exceptions /\ io_ok IN
             /\ files' = IF saved THEN files \cup {filename} ELSE files
             /\ log' = Append(log, [column |-> N("DQ30"),
                                    strategy |-> "dq30",
                                    saved |-> saved,
                                    file |-> IF saved THEN filename ELSE <<>>,
                                    left |-> IF left \in Exceptions
                                             THEN "none" ELSE left,
                                    right |-> "none",
                                    raised |-> IF left \in Exceptions
                                               THEN left ELSE "none",
                                    io_ok |-> io_ok])
    /\ column_i' = column_i + 1
    /\ UNCHANGED <<deriveVars, histogram_count, bar_chart_count,
                   range_chart_count, skipped_count, otherVars>>

\* print(f"  • Total charts created: 10"); generate_validation_charts
\* returns
ValidationTotals ==
    /\ pc = "validation_charts"
    /\ column_i = Len(metrics) + 2
    /\ pc' = "charts_done"
    /\ UNCHANGED <<heap, df, df0, df_with_metrics, ret, script, step, exc,
                   chartVars, otherVars>>

(***************************************************************************)
(* main() of dq_visualizer.py and of validation_chart_generator.py         *)
(***************************************************************************)
\* sys.exit(1) before the try block of main: the process ends at once
SysExitOutsideTry ==
    /\ process' = "exit_1"
    /\ pc' = "ended"

\* an exception (SystemExit for sys.exit(1)) raised inside the try block
\* of main: control goes to the finally clause with the exception pending
RaiseInTry(exception) ==
    /\ pending' = exception
    /\ pc' = "finally"

\* sql_query = read_sql_file(sql_file_path)
ReadSqlFile ==
    /\ pc = "main"
    /\ \E ok \in BOOLEAN :
          IF ok THEN pc' = "connect" /\ UNCHANGED process
          ELSE SysExitOutsideTry
    /\ UNCHANGED <<heap, df, df0, df_with_metrics, ret, script, step, exc,
                   chartVars, connection, close_calls, pending,
                   first_result, rangeVars>>

\* connection = connect_to_database()
ConnectToDatabase ==
    /\ pc = "connect"
    /\ \E ok \in BOOLEAN :
          IF ok THEN /\ connection' = "open"
                     /\ pc' = "execute_query"
                     /\ UNCHANGED process
          ELSE SysExitOutsideTry /\ UNCHANGED connection
    /\ UNCHANGED <<heap, df, df0, df_with_metrics, ret, script, step, exc,
                   chartVars, close_calls, pending, first_result, rangeVars>>

\* the tables the query may return to main: the raw columns (three rows)
\* of which column i holds picks[(i % 3) + 1] and the last one
\* `outstanding`, followed by the assumption columns: the j-th of them is
\* missing, filled, or all-NaN according to (j + shift) % 3
AssumptionColumns(shift) ==
    LET all == [j \in 1..Len(metrics) |->
                   Column(metrics[j].assumption_col,
                          IF (j + shift) % 3 = 1
                          THEN Series("float64", <<Num(1), Num(2), NULL>>)
                          ELSE Series("float64", <<NULL, NULL, NULL>>))]
        index == [j \in 1..Len(metrics) |-> j]
        kept == SelectSeq(index, LAMBDA j : (j + shift) % 3 # 0)
    IN  [k \in 1..Len(kept) |-> all[kept[k]]]

MainTable(absent, picks, outstanding, shift) ==
    LET raw == [i \in 1..Len(RawColumns) |->
                   Column(RawColumns[i],
                          IF i = Len(RawColumns) THEN outstanding
                          ELSE picks[(i % 3) + 1])]
    IN  SelectSeq(raw, LAMBDA c : c.name \notin absent)
            \o AssumptionColumns(shift)

NumericPicks == <<Series("int64", <<Num(10), Num(0), Num(5)>>),
                  Series("int64", <<Num(2), Num(0), Num(0)>>),
                  Series("float64", <<NULL, Num(3), Num(-1)>>)>>
NullPicks == <<Series("object", <<NULL, NULL, NULL>>),
               Series("int64", <<Num(2), Num(0), Num(0)>>),
               Series("float64", <<NULL, Num(3), Num(-1)>>)>>
NumericOutstanding == Series("float64", <<Num(7), NULL, Num(9)>>)
StringOutstanding == Series("object", <<Str(1), NULL, Str(2)>>)

\* a table of one numeric and one text column, none of them a raw column
\* of the metrics
SmallTable == <<Column(N("X"), Series("float64", <<Num(1), Num(2), NULL>>)),
                Column(N("Y"), Series("object", <<Str(1), Str(2), Str(1)>>))>>

MainTables == {
    MainTable({}, NumericPicks, NumericOutstanding, 0),
    MainTable({}, NumericPicks, NumericOutstanding, 1),
    MainTable({}, NumericPicks, NumericOutstanding, 2),
    MainTable({N("PRINCIPAL_BALANCE_OPEN_ACCOUNTS")}, NullPicks,
              NumericOutstanding, 0),
    MainTable({N("LATE_FEES")}, NumericPicks, NumericOutstanding, 0),
    MainTable({}, NumericPicks, StringOutstanding, 0),
    SmallTable }

\* execute_query whose handler prints and returns None
after_query_failure_returns == [pending |-> "none", pc |-> "call"]

\* execute_query, except Exception: ...; connection.close(); sys.exit(1)
\* -- SystemExit is raised inside the try block of main
after_query_failure == [pending |-> "SystemExit", pc |-> "finally"]

\* df = execute_query(connection, sql_query), with the table it builds
\* from cursor.fetchall() and cursor.description
ExecuteQuery ==
    /\ pc = "execute_query"
    /\ \/ \E t \in MainTables :
             /\ heap' = <<t, <<>> >>
             /\ df' = 1
             /\ df0' = t
             /\ pc' = IF script = "dq_visualizer" THEN "call" ELSE "dump_raw"
             /\ UNCHANGED <<connection, close_calls, pending>>
       \/ /\ connection' = "closed"
          /\ close_calls' = close_calls + 1
          /\ pending' = after_query_failure.pending
          /\ pc' = after_query_failure.pc
          /\ UNCHANGED <<heap, df, df0>>
    /\ UNCHANGED <<df_with_metrics, ret, script, step, exc, chartVars,
                   process, first_result, rangeVars>>

\* validation main: df.to_csv('raw_sql_output.csv', index=False)
SaveRawCsv ==
    /\ pc = "dump_raw"
    /\ \E ok \in BOOLEAN :
          IF ok THEN pc' = "call" /\ UNCHANGED pending
          ELSE RaiseInTry("Exception")
    /\ UNCHANGED <<heap, df, df0, df_with_metrics, ret, script, step, exc,
                   chartVars, connection, close_calls, process,
                   first_result, rangeVars>>

\* dq main: create_output_directory(output_directory), which calls
\* sys.exit(1) when os.makedirs raises; then generate_charts is entered
CreateOutputDirectory ==
    /\ pc = "main_after_derive" /\ script = "dq_visualizer"
    /\ \E ok \in BOOLEAN :
          IF ok THEN /\ pc' = "generate_charts"
                     /\ column_i' = 1
                     /\ UNCHANGED pending
          ELSE RaiseInTry("SystemExit") /\ UNCHANGED column_i
    /\ UNCHANGED <<heap, df, df0, df_with_metrics, ret, script, step, exc,
                   histogram_count, bar_chart_count, range_chart_count,
                   skipped_count, files, log, connection, close_calls,
                   process, first_result, rangeVars>>

\* validation main: df_with_metrics.to_csv('calculated_metrics.csv', ...)
SaveMetricsCsv ==
    /\ pc = "main_after_derive" /\ script = "validation_chart_generator"
    /\ \E ok \in BOOLEAN :
          IF ok THEN pc' = "generate_validation_charts" /\ UNCHANGED pending
          ELSE RaiseInTry("Exception")
    /\ UNCHANGED <<heap, df, df0, df_with_metrics, ret, script, step, exc,
                   chartVars, connection, close_calls, process,
                   first_result, rangeVars>>

\* generate_validation_charts: os.makedirs(output_dir, exist_ok=True),
\* outside any try block of the function
MakeDirs ==
    /\ pc = "generate_validation_charts"
    /\ \E ok \in BOOLEAN :
          IF ok THEN /\ pc' = "validation_charts"
                     /\ column_i' = 1
                     /\ UNCHANGED pending
          ELSE RaiseInTry("Exception") /\ UNCHANGED column_i
    /\ UNCHANGED <<heap, df, df0, df_with_metrics, ret, script, step, exc,
                   histogram_count, bar_chart_count, range_chart_count,
                   skipped_count, files, log, connection, close_calls,
                   process, first_result, rangeVars>>

\* finally: connection.close(); after it a pending exception goes on
\* (SystemExit ends the process with status 1, any other with a
\* traceback), and without one main goes on to the completion message
FinallyClose ==
    /\ pc \in {"charts_done", "finally"}
    /\ connection' = "closed"
    /\ close_calls' = close_calls + 1
    /\ process' = CASE pending = "SystemExit" -> "exit_1"
                    [] pending = "Exception" -> "traceback"
                    [] OTHER -> process
    /\ pc' = IF pending = "none" THEN "completion" ELSE "ended"
    /\ UNCHANGED <<heap, df, df0, df_with_metrics, ret, script, step, exc,
                   chartVars, pending, first_result, rangeVars>>

\* print("... CREATED SUCCESSFULLY!"); main returns
PrintCompletion ==
    /\ pc = "completion"
    /\ process' = "completed"
    /\ pc' = "ended"
    /\ UNCHANGED <<heap, df, df0, df_with_metrics, ret, script, step, exc,
                   chartVars, connection, close_calls, pending,
                   first_result, rangeVars>>

MainInit ==
    /\ script \in {"dq_visualizer", "validation_chart_generator"}
    /\ pc = "main"
    /\ heap = << <<>>, <<>> >>
    /\ df0 = <<>>
    /\ df = 0 /\ df_with_metrics = 0 /\ ret = 0
    /\ step = 0
    /\ exc = "none"
    /\ ChartIdle
    /\ connection = "none" /\ close_calls = 0
    /\ process = "running" /\ pending = "none"
    /\ first_result = <<>>
    /\ range_input = <<>> /\ range_groups = <<>>

MainNext ==
    \/ ReadSqlFile
    \/ ConnectToDatabase
    \/ ExecuteQuery
    \/ SaveRawCsv
    \/ Copy
    \/ ConvertDecimals
    \/ RatioStatement
    \/ UtilStatement
    \/ PassthroughStatement
    \/ ReturnMetrics
    \/ ExceptReturn
    \/ MainAfterDerive
    \/ CreateOutputDirectory
    \/ VisitColumn
    \/ PrintTotals
    \/ SaveMetricsCsv
    \/ MakeDirs
    \/ ValidationChart
    \/ Dq30Chart
    \/ ValidationTotals
    \/ FinallyClose
    \/ PrintCompletion

SpecMain == MainInit /\ [][MainNext]_vars

(***************************************************************************)
(* Properties of the two pipelines (checked under SpecMain)                *)
(***************************************************************************)
\* execute_query has returned a table to main
Fetched == df = 1
Validation == script = "validation_chart_generator"
\* generate_validation_charts has returned
ValidationDone ==
    /\ Validation
    /\ column_i = Len(metrics) + 2
    /\ pc # "validation_charts"
ValidationFile(k) == metrics[k].metric_name \o <<"_validation.png">>
ExpectedValidationFiles ==
    {ValidationFile(k) : k \in 1..Len(metrics)} \cup {<<"DQ30_validation.png">>}

\* C12: when generate_validation_charts has returned (and plt.savefig never
\* failed), the output holds exactly the ten artifacts of the metric
\* configuration: the nine {label}_validation.png and DQ30_validation.png,
\* whatever table the derivation handed over.
C12_TenArtifacts ==
    (ValidationDone /\ \A k \in 1..Len(log) : log[k].io_ok) =>
        /\ files = ExpectedValidationFiles
        /\ Cardinality(files) = 10

\* the assumption side of a pair is missing from table t
MissingAssumption(t, assumption_col) ==
    \/ assumption_col = <<>>
    \/ ~HasColumn(t, assumption_col)
    \/ dropna(getitem(t, assumption_col).values) = <<>>
\* the actual column is there and its values can be drawn
ActualPresent(t, actual_col) ==
    /\ HasColumn(t, actual_col)
    /\ ~hist_raises(getitem(t, actual_col).values)

C14_NoAbnormalEndAfterFetch ==
    Fetched => process \in {"running", "completed"}

\* C16: nothing is written, no chart is attempted and the output-directory
\* step is not reached unless execute_query has returned a table; a run
\* whose fetch failed ends with exit status 1; the derivation runs after
\* the fetch and has returned before any chart is attempted.
C16_FetchFirst ==
    /\ ~Fetched => files = {} /\ log = <<>> /\ ret = 0
    /\ pc \in {"dump_raw", "call", "convert", "try", "except", "returned"} =>
          Fetched /\ files = {} /\ log = <<>>
    /\ pc \in {"main_after_derive", "generate_charts",
                "generate_validation_charts", "validation_charts",
                "charts_done", "completion"} =>
          Fetched /\ ret # 0
    /\ (files # {} \/ log # <<>>) => Fetched /\ ret # 0
    /\ (pc = "ended" /\ ~Fetched) => process = "exit_1"
    /\ process = "completed" => Fetched /\ ret # 0

\* a run whose fetch failed: the process has ended with status 1 and
\* nothing was written
C16_Witness ==
    /\ pc = "ended"
    /\ connection # "none" /\ ~Fetched
    /\ process = "exit_1"
    /\ files = {} /\ log = <<>>

\* a run that fetched, derived and then wrote charts
C16_RenderAfterDeriveReached ==
    /\ process = "completed"
    /\ Fetched /\ ret = 2
    /\ files # {}

\* C20: close() is never called twice on the connection, and when the
\* process ends after connect_to_database returned a connection, the
\* connection has been closed exactly once.
C20_ClosedExactlyOnce ==
    /\ close_calls <= 1
    /\ (pc = "ended" /\ connection # "none") =>
          close_calls = 1 /\ connection = "closed"
====
